---- MODULE Spec2Model ----
(***************************************************************************)
(* Model of the sales-regression application (src/App.tsx, src/types.ts):  *)
(* file loading and type coercion, descriptive statistics, the correlation *)
(* matrix, variable selection, model training, the advisory capabilities,  *)
(* prediction and the application state.                                   *)
(*                                                                         *)
(* Values.  A JavaScript value is a record with one field: [num |-> n] is  *)
(* the number n, [str |-> s] the string s (a sequence of one-character     *)
(* strings), NaN is the number NaN and UNDEFINED is undefined.  Cell text  *)
(* is written over the alphabet of digits, sign, blank and letters; a      *)
(* decimal point or an exponent does not occur in it, so every number of   *)
(* the model is an integer or (after a fit) a ratio of integers.           *)
(***************************************************************************)
EXTENDS Integers, Sequences, FiniteSets, TLC

VARIABLES
    isLoading,           \* App.isLoading (App.tsx:553)
    dataSet,             \* App.dataSet (App.tsx:554)
    model,               \* App.model (App.tsx:555)
    variableSuggestions, \* App.variableSuggestions (App.tsx:556)
    dependentVar,        \* ModelTrainer.dependentVar (App.tsx:304)
    independentVars,     \* ModelTrainer.independentVars (App.tsx:305)
    isSuggesting,        \* AnalysisDisplay.isSuggesting (App.tsx:152)
    suggestionError,     \* AnalysisDisplay.suggestionError (App.tsx:153)
    alert,               \* the alert the last handler showed, "none" when it showed none
    insights,            \* AnalysisDisplay.insights (App.tsx:150)
    insightsLoading,     \* AnalysisDisplay.isLoading (App.tsx:151)
    insightRequests,     \* the calls of getDatasetInsights in flight (App.tsx:194)
    suggestionRequests,  \* the dataSet of each call of getVariableSuggestions in flight (App.tsx:203)
    inputs,              \* Predictor.inputs (App.tsx:416), NULL while no Predictor is mounted
    prediction           \* Predictor.prediction (App.tsx:419)

vars == <<isLoading, dataSet, model, variableSuggestions, dependentVar,
          independentVars, isSuggesting, suggestionError, alert, insights,
          insightsLoading, insightRequests, suggestionRequests, inputs, prediction>>

\* The state of the insights capability, of the requests in flight and of Predictor.
insightVars == <<insights, insightsLoading, insightRequests>>
predictorVars == <<inputs, prediction>>

NULL == [null |-> TRUE]
NaN == [nan |-> TRUE]
UNDEFINED == [undefined |-> TRUE]

Num(n) == [num |-> n]
Str(s) == [str |-> s]

Range(s) == {s[i] : i \in 1..Len(s)}
Includes(s, e) == \E i \in 1..Len(s) : s[i] = e

(***************************************************************************)
(* Text to number.                                                         *)
(***************************************************************************)
DigitChars == <<"0", "1", "2", "3", "4", "5", "6", "7", "8", "9">>
IsDigit(c) == Includes(DigitChars, c)
DigitValue(c) == (CHOOSE i \in 1..Len(DigitChars) : DigitChars[i] = c) - 1
IsSpace(c) == c = " "

RECURSIVE TrimStart(_)
TrimStart(s) == IF s # <<>> /\ IsSpace(Head(s)) THEN TrimStart(Tail(s)) ELSE s

RECURSIVE TrimEnd(_)
TrimEnd(s) ==
    IF s # <<>> /\ IsSpace(s[Len(s)]) THEN TrimEnd(SubSeq(s, 1, Len(s) - 1)) ELSE s

RECURSIVE DigitPrefix(_)
DigitPrefix(s) ==
    IF s # <<>> /\ IsDigit(Head(s)) THEN <<Head(s)>> \o DigitPrefix(Tail(s)) ELSE <<>>

RECURSIVE DecimalValue(_)
DecimalValue(ds) ==
    IF ds = <<>> THEN 0
    ELSE 10 * DecimalValue(SubSeq(ds, 1, Len(ds) - 1)) + DigitValue(ds[Len(ds)])

HasSign(s) == s # <<>> /\ Head(s) \in {"-", "+"}
Signed(s, n) == IF s # <<>> /\ Head(s) = "-" THEN 0 - n ELSE n

\* String(v): a string is itself, undefined is the text "undefined".
String(v) ==
    IF v = UNDEFINED THEN <<"u", "n", "d", "e", "f", "i", "n", "e", "d">> ELSE v.str

\* parseFloat(s): blanks are skipped, then an optional sign and the longest run
\* of digits are read; what follows is ignored; no digit read gives NaN.
parseFloat(s) ==
    LET t == TrimStart(s)
        body == IF HasSign(t) THEN Tail(t) ELSE t
        ds == DigitPrefix(body)
    IN  IF ds = <<>> THEN NaN ELSE Num(Signed(t, DecimalValue(ds)))

\* Number(v), the conversion the global isNaN applies to its argument: a number
\* is itself; a string is trimmed, the empty string is 0, and otherwise the
\* whole text must be a numeric literal.
ToNumber(v) ==
    IF v = UNDEFINED THEN NaN
    ELSE IF "str" \notin DOMAIN v THEN v
    ELSE LET t == TrimEnd(TrimStart(v.str))
             body == IF HasSign(t) THEN Tail(t) ELSE t
             ds == DigitPrefix(body)
         IN  IF t = <<>> THEN Num(0)
             ELSE IF ds # <<>> /\ ds = body THEN Num(Signed(t, DecimalValue(ds)))
             ELSE NaN

isNaN(v) == ToNumber(v) = NaN

\* typeof v === 'number'
IsNumberType(v) == v = NaN \/ "num" \in DOMAIN v

(***************************************************************************)
(* Type coercion: FileUpload.processParsedData (App.tsx:68-94).            *)
(* A raw row is a function from the keys present in it to cell strings.    *)
(***************************************************************************)
\* Object.keys lists the keys of a parsed row in column order.
KeyOrder == <<"a", "b", "x1", "x2", "y">>
ObjectKeys(row) == SelectSeq(KeyOrder, LAMBDA k : k \in DOMAIN row)

\* row[key]
Get(row, key) == IF key \in DOMAIN row THEN row[key] ELSE UNDEFINED

\* One pass of the loop over the headers for one row, on numericHeaders.
RECURSIVE PushNumericMissed(_, _, _, _)
PushNumericMissed(row, headers, i, numericHeaders) ==
    IF i > Len(headers) THEN numericHeaders
    ELSE LET key == headers[i]
             value == parseFloat(String(Get(row, key)))
         IN  PushNumericMissed(row, headers, i + 1,
                 IF ~Includes(numericHeaders, key)
                 THEN Append(numericHeaders, key) ELSE numericHeaders)

RECURSIVE PushNumeric(_, _, _, _)
PushNumeric(row, headers, i, numericHeaders) ==
    IF i > Len(headers) THEN numericHeaders
    ELSE LET key == headers[i]
             value == parseFloat(String(Get(row, key)))
         IN  PushNumeric(row, headers, i + 1,
                 IF value # NaN /\ ~Includes(numericHeaders, key)
                 THEN Append(numericHeaders, key) ELSE numericHeaders)

RECURSIVE CollectNumeric(_, _, _, _)
CollectNumeric(data, headers, r, numericHeaders) ==
    IF r > Len(data) THEN numericHeaders
    ELSE CollectNumeric(data, headers, r + 1,
                        PushNumeric(data[r], headers, 1, numericHeaders))

\* newRow of one row: the parsed number, or the cell's text when it does not parse.
NewRow(row, headers) ==
    [key \in Range(headers) |->
        LET value == parseFloat(String(Get(row, key)))
        IN  IF value # NaN THEN value ELSE Str(String(Get(row, key)))]

\* Lines 74-92 with every cell of a numeric column required to parse.
CoerceRowsAllParse(data) ==
    LET headers == ObjectKeys(data[1])
    IN  [data |-> [r \in 1..Len(data) |-> NewRow(data[r], headers)],
         headers |-> headers,
         numericHeaders |-> SelectSeq(headers, LAMBDA key :
             \A r \in 1..Len(data) : parseFloat(String(Get(data[r], key))) # NaN)]

\* Lines 74-92: the DataSet handed to onFileParsed, for non-empty data.
CoerceRows(data) ==
    LET headers == ObjectKeys(data[1])
    IN  [data |-> [r \in 1..Len(data) |-> NewRow(data[r], headers)],
         headers |-> headers,
         numericHeaders |-> CollectNumeric(data, headers, 1, <<>>)]

\* processParsedData that hands an empty DataSet on for empty data.
processParsedDataUnguarded(data) ==
    IF Len(data) = 0
    THEN [alert |-> "file:empty",
          parsed |-> [data |-> <<>>, headers |-> <<>>, numericHeaders |-> <<>>]]
    ELSE [alert |-> "none", parsed |-> CoerceRows(data)]

\* What processParsedData ends with: its alert ("none" for none) and the
\* argument of onFileParsed, NULL when it is not called.
processParsedData(data) ==
    IF Len(data) = 0
    THEN [alert |-> "file:empty", parsed |-> NULL]
    ELSE [alert |-> "none", parsed |-> CoerceRows(data)]

(***************************************************************************)
(* Descriptive statistics: AnalysisDisplay.stats (App.tsx:155-171).        *)
(* count is modelled; min, max, mean, median and std are simple-statistics *)
(* functions of the same list of values.                                   *)
(***************************************************************************)
Column(ds, header) == [r \in 1..Len(ds.data) |-> ds.data[r][header]]

\* data.map(row => row[header] as number).filter(v => v !== null && !isNaN(v))
StatValues(ds, header) == SelectSeq(Column(ds, header), LAMBDA v : v # NULL /\ ~isNaN(v))

stats(ds) ==
    [header \in {h \in Range(ds.numericHeaders) : Len(StatValues(ds, h)) > 0} |->
        [count |-> Len(StatValues(ds, header))]]

(***************************************************************************)
(* Correlation matrix: AnalysisDisplay.correlationMatrix (App.tsx:173-190).*)
(* sampleCorrelation (simple-statistics) is left uninterpreted: its result *)
(* is the term [corr |-> <<v1, v2>>] of its two arguments in their order,  *)
(* except that it throws for samples of fewer than two points.             *)
(***************************************************************************)
THROWS == [throws |-> TRUE]

sampleCorrelation(v1, v2) == IF Len(v1) < 2 THEN THROWS ELSE [corr |-> <<v1, v2>>]

\* The inner forEach over h2 without the mirror branch: every pair is computed.
RECURSIVE CorrelationRowRecomputed(_, _, _, _, _)
CorrelationRowRecomputed(ds, h1, j, row, matrix) ==
    IF j > Len(ds.numericHeaders) THEN row
    ELSE LET h2 == ds.numericHeaders[j]
             value == IF h1 = h2 THEN Num(1)
                      ELSE sampleCorrelation(Column(ds, h1), Column(ds, h2))
         IN  CorrelationRowRecomputed(ds, h1, j + 1,
                 [k \in DOMAIN row \cup {h2} |-> IF k = h2 THEN value ELSE row[k]],
                 matrix)

\* The inner forEach over h2: row is matrix[h1] so far, matrix the rows before it.
RECURSIVE CorrelationRow(_, _, _, _, _)
CorrelationRow(ds, h1, j, row, matrix) ==
    IF j > Len(ds.numericHeaders) THEN row
    ELSE LET h2 == ds.numericHeaders[j]
             value == IF h1 = h2 THEN Num(1)
                      ELSE IF h2 \in DOMAIN matrix /\ h1 \in DOMAIN matrix[h2]
                           THEN matrix[h2][h1]
                      ELSE sampleCorrelation(Column(ds, h1), Column(ds, h2))
         IN  CorrelationRow(ds, h1, j + 1,
                 [k \in DOMAIN row \cup {h2} |-> IF k = h2 THEN value ELSE row[k]],
                 matrix)

\* The outer forEach over h1.
RECURSIVE CorrelationRows(_, _, _)
CorrelationRows(ds, i, matrix) ==
    IF i > Len(ds.numericHeaders) THEN matrix
    ELSE LET h1 == ds.numericHeaders[i]
             row == CorrelationRow(ds, h1, 1, <<>>, matrix)
         IN  CorrelationRows(ds, i + 1,
                 [k \in DOMAIN matrix \cup {h1} |-> IF k = h1 THEN row ELSE matrix[k]])

\* The memo's value; an exception of sampleCorrelation leaves no matrix.
correlationMatrix(ds) ==
    LET matrix == CorrelationRows(ds, 1, <<>>)
    IN  IF \E a \in DOMAIN matrix : \E b \in DOMAIN matrix[a] : matrix[a][b] = THROWS
        THEN THROWS ELSE matrix

(***************************************************************************)
(* Numbers after a fit: a ratio of integers [p, q], q > 0, in lowest       *)
(* terms, NaN, or Infinity(sign).  The arithmetic is exact.                *)
(***************************************************************************)
Abs(n) == IF n < 0 THEN 0 - n ELSE n

RECURSIVE GCD(_, _)
GCD(a, b) == IF b = 0 THEN a ELSE GCD(b, a % b)

Ratio(p, q) ==
    LET g == GCD(Abs(p), Abs(q))
        s == IF q < 0 THEN 0 - 1 ELSE 1
    IN  [p |-> (s * p) \div g, q |-> (s * q) \div g]

RInt(n) == [p |-> n, q |-> 1]
Infinity(sign) == [inf |-> sign]
IsRatio(v) == "p" \in DOMAIN v
IsInfinity(v) == "inf" \in DOMAIN v
SignOf(v) ==
    IF IsInfinity(v) THEN v.inf ELSE IF v.p < 0 THEN 0 - 1 ELSE IF v.p = 0 THEN 0 ELSE 1

JSNeg(v) ==
    IF v = NaN THEN NaN
    ELSE IF IsInfinity(v) THEN Infinity(0 - v.inf)
    ELSE [p |-> 0 - v.p, q |-> v.q]

JSAdd(a, b) ==
    IF a = NaN \/ b = NaN THEN NaN
    ELSE IF IsInfinity(a) /\ IsInfinity(b) THEN (IF a = b THEN a ELSE NaN)
    ELSE IF IsInfinity(a) THEN a
    ELSE IF IsInfinity(b) THEN b
    ELSE Ratio(a.p * b.q + b.p * a.q, a.q * b.q)

JSSub(a, b) == JSAdd(a, JSNeg(b))

JSMul(a, b) ==
    IF a = NaN \/ b = NaN THEN NaN
    ELSE IF IsInfinity(a) \/ IsInfinity(b)
         THEN (IF SignOf(a) * SignOf(b) = 0 THEN NaN ELSE Infinity(SignOf(a) * SignOf(b)))
    ELSE Ratio(a.p * b.p, a.q * b.q)

JSDiv(a, b) ==
    IF a = NaN \/ b = NaN THEN NaN
    ELSE IF IsInfinity(a) /\ IsInfinity(b) THEN NaN
    ELSE IF IsInfinity(a) THEN Infinity(IF SignOf(b) < 0 THEN 0 - a.inf ELSE a.inf)
    ELSE IF IsInfinity(b) THEN RInt(0)
    ELSE IF b.p = 0 THEN (IF a.p = 0 THEN NaN ELSE Infinity(SignOf(a)))
    ELSE Ratio(a.p * b.q, a.q * b.p)

RECURSIVE JSSum(_)
JSSum(s) == IF s = <<>> THEN RInt(0) ELSE JSAdd(Head(s), JSSum(Tail(s)))

JSSquare(v) == JSMul(v, v)

RECURSIVE Sum(_)
Sum(s) == IF s = <<>> THEN 0 ELSE Head(s) + Sum(Tail(s))

(***************************************************************************)
(* MultivariateLinearRegression (ml-regression), as App.tsx uses it: the   *)
(* constructor appends a column of ones to x and solves the normal         *)
(* equations, so weights has one row per input followed by the intercept   *)
(* row, and predict adds the products of the input rows to the last row.   *)
(* For singular normal equations no coefficient is determined (NaN).       *)
(***************************************************************************)
Minor(M, i, j) ==
    [r \in 1..(Len(M) - 1) |->
        [c \in 1..(Len(M) - 1) |->
            M[IF r < i THEN r ELSE r + 1][IF c < j THEN c ELSE c + 1]]]

RECURSIVE Det(_)
Det(M) ==
    IF Len(M) = 0 THEN 1
    ELSE Sum([j \in 1..Len(M) |->
                (IF j % 2 = 1 THEN 1 ELSE 0 - 1) * M[1][j] * Det(Minor(M, 1, j))])

\* The solution of A w = b by Cramer's rule, d the determinant of A.
Solve(A, b, d) ==
    IF d = 0 THEN [i \in 1..Len(A) |-> NaN]
    ELSE [i \in 1..Len(A) |->
            Ratio(Det([r \in 1..Len(A) |-> [c \in 1..Len(A) |->
                          IF c = i THEN b[r] ELSE A[r][c]]]), d)]

\* The normal equations of the rows X (x with its column of ones) and y.
NormalEquations(X, y, m) ==
    [A |-> [i \in 1..m |-> [j \in 1..m |-> Sum([r \in 1..Len(X) |-> X[r][i] * X[r][j]])]],
     b |-> [i \in 1..m |-> Sum([r \in 1..Len(X) |-> X[r][i] * y[r]])]]

SolveNormal(eq) == Solve(eq.A, eq.b, Det(eq.A))

\* new MultivariateLinearRegression(x, y).weights
MLRWeights(x, y) ==
    SolveNormal(NormalEquations([r \in 1..Len(x) |-> Append(x[r], 1)], y, Len(x[1]) + 1))

\* model.predict(row)
MLRPredict(weights, row) ==
    LET k == Len(weights) - 1
    IN  JSAdd(JSSum([i \in 1..k |-> JSMul(weights[i], RInt(row[i]))]), weights[k + 1])

(***************************************************************************)
(* Training: ModelTrainer.handleTrainModel (App.tsx:319-376).              *)
(***************************************************************************)
\* typeof row[v] === 'number' && !isNaN(row[v])
IsCleanValue(v) == IsNumberType(v) /\ ~isNaN(v)

CleanData(ds, allVars) ==
    SelectSeq(ds.data, LAMBDA row :
        \A i \in 1..Len(allVars) : IsCleanValue(Get(row, allVars[i])))

\* y and x of the clean rows (App.tsx:335-336)
TrainY(ds, dependent, independents) ==
    LET cleanData == CleanData(ds, <<dependent>> \o independents)
    IN  [r \in 1..Len(cleanData) |-> cleanData[r][dependent].num]

TrainX(ds, dependent, independents) ==
    LET cleanData == CleanData(ds, <<dependent>> \o independents)
    IN  [r \in 1..Len(cleanData) |->
            [i \in 1..Len(independents) |-> cleanData[r][independents[i]].num]]

\* A threshold one row short.
RequiredRowsOffByOne(k) == k + 1

\* The least number of clean rows the fit is attempted with (App.tsx:330).
RequiredRows(k) == k + 2

\* mean(y) and ssTotal (App.tsx:347-348)
SsTotal(y) ==
    LET yMean == Ratio(Sum(y), Len(y))
    IN  JSSum([r \in 1..Len(y) |-> JSSquare(JSSub(RInt(y[r]), yMean))])

\* ssResidual over the predictions of the fitted model (App.tsx:346, 355)
SsResidual(weights, x, y) ==
    JSSum([r \in 1..Len(y) |-> JSSquare(JSSub(RInt(y[r]), MLRPredict(weights, x[r])))])

\* rSquared, rSquaredAdjusted and rmse (App.tsx:357-362); rmse is the square
\* root of the number it holds.
Metrics(rSquared, ssResidual, n, k) ==
    [rSquared |-> rSquared,
     rSquaredAdjusted |->
         JSSub(RInt(1), JSDiv(JSMul(JSSub(RInt(1), rSquared), RInt(n - 1)),
                              RInt(n - k - 1))),
     rmse |-> [sqrt |-> JSDiv(ssResidual, RInt(n))]]

MetricsOf(ssTotal, ssResidual, n, k) ==
    Metrics(JSSub(RInt(1), JSDiv(ssResidual, ssTotal)), ssResidual, n, k)

\* results (App.tsx:364-370): weights[0][0] is reported as the intercept and
\* weights.slice(1) as the coefficients.
ModelResultsOf(weights, metrics) ==
    [coefficients |-> Tail(weights),
     intercept |-> weights[1],
     rSquared |-> metrics.rSquared,
     rSquaredAdjusted |-> metrics.rSquaredAdjusted,
     rmse |-> metrics.rmse]

\* The arguments of onModelTrain (App.tsx:371)
TrainedWith(weights, x, y, dependent, independents) ==
    [model |-> [weights |-> weights],
     results |-> ModelResultsOf(weights,
                     MetricsOf(SsTotal(y), SsResidual(weights, x, y), Len(y),
                               Len(independents))),
     independentVars |-> independents,
     dependentVar |-> dependent]

\* The try block (App.tsx:338-375) without the return after the zero-variance
\* alert.
FitAndReportNoReturn(weights, x, y, dependent, independents, fit) ==
    IF fit = "throws"
    THEN [alert |-> "train:unexpected", trained |-> NULL]
    ELSE IF \E i \in 1..Len(weights) : weights[i] = NaN
    THEN [alert |-> "train:invalidCoefficients", trained |-> NULL]
    ELSE IF SsTotal(y).p = 0
    THEN [alert |-> "train:zeroVariance",
          trained |-> TrainedWith(weights, x, y, dependent, independents)]
    ELSE [alert |-> "none",
          trained |-> TrainedWith(weights, x, y, dependent, independents)]

\* The try block (App.tsx:338-375).  fit is how the constructor of the
\* regression ended: "returns" or "throws".
FitAndReport(weights, x, y, dependent, independents, fit) ==
    IF fit = "throws"
    THEN [alert |-> "train:unexpected", trained |-> NULL]
    ELSE IF \E i \in 1..Len(weights) : weights[i] = NaN
    THEN [alert |-> "train:invalidCoefficients", trained |-> NULL]
    ELSE IF SsTotal(y).p = 0
    THEN [alert |-> "train:zeroVariance", trained |-> NULL]
    ELSE [alert |-> "none",
          trained |-> TrainedWith(weights, x, y, dependent, independents)]

FitClean(x, y, dependent, independents, fit) ==
    IF Len(y) < RequiredRows(Len(independents))
    THEN [alert |-> "train:insufficient", trained |-> NULL]
    ELSE FitAndReport(MLRWeights(x, y), x, y, dependent, independents, fit)

\* What one call ends with: the alert it shows ("none" for none) and the
\* arguments of onModelTrain, NULL when it is not called.
handleTrainModel(ds, dependent, independents, fit) ==
    IF dependent = "" \/ Len(independents) = 0
    THEN [alert |-> "train:noSelection", trained |-> NULL]
    ELSE FitClean(TrainX(ds, dependent, independents), TrainY(ds, dependent, independents),
                  dependent, independents, fit)

(***************************************************************************)
(* The application state and its handlers.                                 *)
(***************************************************************************)
\* App.handleFileParsed (App.tsx:558-562) that keeps the model.
handleFileParsedKeepsModel(newDataSet) ==
    [dataSet |-> newDataSet, model |-> model, variableSuggestions |-> NULL]

\* App.handleFileParsed (App.tsx:558-562)
handleFileParsed(newDataSet) ==
    [dataSet |-> newDataSet, model |-> NULL, variableSuggestions |-> NULL]

\* App.handleModelTrain (App.tsx:564-566)
handleModelTrain(trained) ==
    [model |-> trained.model, results |-> trained.results,
     independentVars |-> trained.independentVars, dependentVar |-> trained.dependentVar]

\* The effect of ModelTrainer with a filter that only compares with the
\* suggested dependent variable.
SuggestionEffectUnchecked(suggestions, ds, dependent, independents) ==
    IF suggestions # NULL /\ Includes(ds.headers, suggestions.dependentVar)
       /\ Includes(ds.numericHeaders, suggestions.dependentVar)
    THEN [dependentVar |-> suggestions.dependentVar,
          independentVars |-> SelectSeq(suggestions.independentVars, LAMBDA v :
              v # suggestions.dependentVar)]
    ELSE [dependentVar |-> dependent, independentVars |-> independents]

\* The effect of ModelTrainer (App.tsx:307-317): the selection it leaves.
SuggestionEffect(suggestions, ds, dependent, independents) ==
    IF suggestions # NULL /\ Includes(ds.headers, suggestions.dependentVar)
       /\ Includes(ds.numericHeaders, suggestions.dependentVar)
    THEN [dependentVar |-> suggestions.dependentVar,
          independentVars |-> SelectSeq(suggestions.independentVars, LAMBDA v :
              Includes(ds.numericHeaders, v) /\ v # suggestions.dependentVar)]
    ELSE [dependentVar |-> dependent, independentVars |-> independents]

\* handleIndependentVarToggle (App.tsx:378-382)
ToggledVars(prev, varName) ==
    IF Includes(prev, varName) THEN SelectSeq(prev, LAMBDA v : v # varName)
    ELSE Append(prev, varName)

\* availableIndependentVars (App.tsx:384)
availableIndependentVars(ds, dependent) == SelectSeq(ds.numericHeaders, LAMBDA h : h # dependent)

(***************************************************************************)
(* Predictor (App.tsx:415-433), mounted while App.model is not null        *)
(* (App.tsx:603-612).                                                      *)
(***************************************************************************)
\* The initial inputs (App.tsx:416-418): 0 for every independent variable.
InitialInputs(independents) == [v \in Range(independents) |-> Num(0)]

\* handleInputChange (App.tsx:421-423): parseFloat(value) || 0 is stored.
handleInputChange(prev, varName, value) ==
    [v \in DOMAIN prev \cup {varName} |->
        IF v # varName THEN prev[v]
        ELSE IF parseFloat(value.str) = NaN THEN Num(0) ELSE parseFloat(value.str)]

\* The values handlePredict reads (App.tsx:426)
InputValues(independents, ins) ==
    [i \in 1..Len(independents) |-> Get(ins, independents[i])]

Predicted(weights, inputValues) ==
    IF \E i \in 1..Len(inputValues) : isNaN(inputValues[i])
    THEN [alert |-> "predict:invalid", prediction |-> NULL]
    ELSE [alert |-> "none",
          prediction |-> MLRPredict(weights, [i \in 1..Len(inputValues) |-> inputValues[i].num])]

\* handlePredict (App.tsx:425-433): the alert it shows and the prediction it
\* sets, NULL when it sets none.
handlePredict(current, ins) ==
    Predicted(current.model.weights, InputValues(current.independentVars, ins))

\* The state of Predictor once App.model is next (App.tsx:603-612): it is
\* unmounted with no model, mounted anew after none, and kept otherwise.
PredictorState(current, next, ins, pred) ==
    IF next = NULL THEN [inputs |-> NULL, prediction |-> NULL]
    ELSE IF current = NULL
    THEN [inputs |-> InitialInputs(next.independentVars), prediction |-> NULL]
    ELSE [inputs |-> ins, prediction |-> pred]

(***************************************************************************)
(* Inputs: the files the user loads and the suggestions the advisory       *)
(* service answers with.                                                   *)
(***************************************************************************)
MaxFileRows == 4
MaxRows == 2

Cell(n) == Str(<<DigitChars[n + 1]>>)
Row3(k1, c1, k2, c2, k3, c3) ==
    [k \in {k1, k2, k3} |-> IF k = k1 THEN c1 ELSE IF k = k2 THEN c2 ELSE c3]

\* y = 3 + 2*x1 - x2, without noise
LinearTable ==
    << Row3("x1", Cell(0), "x2", Cell(0), "y", Cell(3)),
       Row3("x1", Cell(1), "x2", Cell(0), "y", Cell(5)),
       Row3("x1", Cell(0), "x2", Cell(1), "y", Cell(2)),
       Row3("x1", Cell(1), "x2", Cell(1), "y", Cell(4)),
       Row3("x1", Cell(2), "x2", Cell(1), "y", Cell(6)) >>

\* a constant y, a constant x2, an empty and a text cell
ConstantTable ==
    << Row3("x1", Cell(1), "x2", Cell(1), "y", Cell(5)),
       Row3("x1", Cell(2), "x2", Cell(1), "y", Cell(5)),
       Row3("x1", Str(<<>>), "x2", Cell(1), "y", Cell(5)),
       Row3("x1", Cell(4), "x2", Cell(1), "y", Cell(5)),
       Row3("x1", Cell(3), "x2", Str(<<"x">>), "y", Cell(5)) >>

\* a text column, a cell of it that parses in the last row, noisy y
MixedTable ==
    << Row3("x1", Cell(1), "x2", Str(<<"x">>), "y", Cell(2)),
       Row3("x1", Cell(2), "x2", Str(<<"x", "2">>), "y", Cell(4)),
       Row3("x1", Cell(3), "x2", Str(<<>>), "y", Cell(5)),
       Row3("x1", Cell(4), "x2", Str(<<"x">>), "y", Cell(9)),
       Row3("x1", Cell(5), "x2", Str(<<"7", "x">>), "y", Cell(8)) >>

Prefix(table, n) == SubSeq(table, 1, IF n < Len(table) THEN n ELSE Len(table))

AppFiles ==
    {<<>>, Prefix(LinearTable, MaxFileRows - 1), Prefix(LinearTable, MaxFileRows),
     Prefix(ConstantTable, MaxFileRows), Prefix(MixedTable, MaxFileRows)}

\* every file of at most MaxRows rows over two columns and these cells
CellTexts == {Str(<<"1">>), Str(<<"2", "x">>), Str(<<>>), Str(<<" ">>), Str(<<"x">>)}
RawRows == UNION {[K -> CellTexts] : K \in SUBSET {"a", "b"}}
AllFiles == UNION {[1..n -> RawRows] : n \in 0..MaxRows}

Suggestions ==
    {[dependentVar |-> "y", independentVars |-> <<"x1", "x2">>],
     [dependentVar |-> "x1", independentVars |-> <<"x1", "y", "zz">>],
     [dependentVar |-> "zz", independentVars |-> <<"x1">>]}

(***************************************************************************)
(* Actions.                                                                *)
(***************************************************************************)
Init ==
    /\ isLoading = FALSE
    /\ dataSet = NULL
    /\ model = NULL
    /\ variableSuggestions = NULL
    /\ dependentVar = ""
    /\ independentVars = <<>>
    /\ isSuggesting = FALSE
    /\ suggestionError = NULL
    /\ alert = "none"
    /\ insights = ""
    /\ insightsLoading = FALSE
    /\ insightRequests = 0
    /\ suggestionRequests = <<>>
    /\ inputs = NULL
    /\ prediction = NULL

\* FileUpload.handleFile (App.tsx:32-66) on a .csv or .xlsx file: the parse starts.
HandleFile ==
    /\ ~isLoading
    /\ isLoading' = TRUE
    /\ alert' = "none"
    /\ UNCHANGED <<dataSet, model, variableSuggestions, dependentVar, independentVars,
                   isSuggesting, suggestionError, insightVars, suggestionRequests,
                   predictorVars>>

\* handleFile on any other file (App.tsx:62-65)
HandleFileUnsupported ==
    /\ ~isLoading
    /\ isLoading' = FALSE
    /\ alert' = "file:unsupported"
    /\ UNCHANGED <<dataSet, model, variableSuggestions, dependentVar, independentVars,
                   isSuggesting, suggestionError, insightVars, suggestionRequests,
                   predictorVars>>

\* The parse fails (App.tsx:41-44, 56-59)
FileError ==
    /\ isLoading
    /\ isLoading' = FALSE
    /\ alert' = "file:error"
    /\ UNCHANGED <<dataSet, model, variableSuggestions, dependentVar, independentVars,
                   isSuggesting, suggestionError, insightVars, suggestionRequests,
                   predictorVars>>

\* The parse completes with the rows data: processParsedData, handleFileParsed
\* and, once the new dataSet is rendered, the effect of ModelTrainer.
Mounted(predictor) ==
    /\ inputs' = predictor.inputs
    /\ prediction' = predictor.prediction

Rendered(app, selection) ==
    /\ Mounted(PredictorState(model, app.model, inputs, prediction))
    /\ dataSet' = app.dataSet
    /\ model' = app.model
    /\ variableSuggestions' = app.variableSuggestions
    /\ dependentVar' = selection.dependentVar
    /\ independentVars' = selection.independentVars

Parsed(outcome) ==
    /\ alert' = outcome.alert
    /\ isLoading' = FALSE
    /\ IF outcome.parsed = NULL
       THEN UNCHANGED <<dataSet, model, variableSuggestions, dependentVar, independentVars,
                        predictorVars>>
       ELSE Rendered(handleFileParsed(outcome.parsed),
                     SuggestionEffect(NULL, outcome.parsed, dependentVar, independentVars))

FileParsed(data) ==
    /\ isLoading
    /\ Parsed(processParsedData(data))
    /\ UNCHANGED <<isSuggesting, suggestionError, insightVars, suggestionRequests>>

\* The select of the dependent variable (App.tsx:391)
SelectDependent(value) ==
    /\ dataSet # NULL
    /\ value = "" \/ Includes(dataSet.numericHeaders, value)
    /\ dependentVar' = value
    /\ independentVars' = <<>>
    /\ alert' = "none"
    /\ UNCHANGED <<isLoading, dataSet, model, variableSuggestions, isSuggesting,
                   suggestionError, insightVars, suggestionRequests, predictorVars>>

\* A checkbox of an independent variable (App.tsx:399-404)
ToggleIndependent(varName) ==
    /\ dataSet # NULL
    /\ Includes(availableIndependentVars(dataSet, dependentVar), varName)
    /\ independentVars' = ToggledVars(independentVars, varName)
    /\ alert' = "none"
    /\ UNCHANGED <<isLoading, dataSet, model, variableSuggestions, dependentVar,
                   isSuggesting, suggestionError, insightVars, suggestionRequests,
                   predictorVars>>

Installed(next) ==
    /\ model' = next
    /\ Mounted(PredictorState(model, next, inputs, prediction))

Trained(outcome) ==
    /\ alert' = outcome.alert
    /\ Installed(IF outcome.trained = NULL THEN model ELSE handleModelTrain(outcome.trained))

\* The train button (App.tsx:408), enabled with a selection, and handleTrainModel.
TrainModel(fit) ==
    /\ dataSet # NULL
    /\ ~(dependentVar = "" \/ Len(independentVars) = 0)
    /\ Trained(handleTrainModel(dataSet, dependentVar, independentVars, fit))
    /\ UNCHANGED <<isLoading, dataSet, variableSuggestions, dependentVar, independentVars,
                   isSuggesting, suggestionError, insightVars, suggestionRequests>>

\* handleSuggestVariables behind a button that is never disabled.
SuggestVariablesUnguarded ==
    /\ dataSet # NULL
    /\ isSuggesting' = TRUE
    /\ suggestionError' = NULL
    /\ suggestionRequests' = Append(suggestionRequests, dataSet)
    /\ alert' = "none"
    /\ UNCHANGED <<isLoading, dataSet, model, variableSuggestions, dependentVar,
                   independentVars, insightVars, predictorVars>>

\* handleSuggestVariables up to its await (App.tsx:199-203); the button is
\* disabled while isSuggesting (App.tsx:288).
SuggestVariables ==
    /\ dataSet # NULL
    /\ ~isSuggesting
    /\ isSuggesting' = TRUE
    /\ suggestionError' = NULL
    /\ suggestionRequests' = Append(suggestionRequests, dataSet)
    /\ alert' = "none"
    /\ UNCHANGED <<isLoading, dataSet, model, variableSuggestions, dependentVar,
                   independentVars, insightVars, predictorVars>>

Selected(selection) ==
    /\ dependentVar' = selection.dependentVar
    /\ independentVars' = selection.independentVars

\* A request in flight settles: it is in flight no more.
Without(requests, i) == SubSeq(requests, 1, i - 1) \o SubSeq(requests, i + 1, Len(requests))

Settled(requests) == \E i \in 1..Len(requests) : suggestionRequests' = Without(requests, i)

\* The request answers (App.tsx:204, 208), then the effect of ModelTrainer runs.
SuggestionsReceived(suggestions) ==
    /\ Settled(suggestionRequests)
    /\ variableSuggestions' = suggestions
    /\ isSuggesting' = FALSE
    /\ Selected(SuggestionEffect(suggestions, dataSet, dependentVar, independentVars))
    /\ alert' = "none"
    /\ UNCHANGED <<isLoading, dataSet, model, suggestionError, insightVars, predictorVars>>

\* The request fails (App.tsx:205-208)
SuggestionsFailed ==
    /\ Settled(suggestionRequests)
    /\ suggestionError' = [message |-> "error"]
    /\ isSuggesting' = FALSE
    /\ alert' = "none"
    /\ UNCHANGED <<isLoading, dataSet, model, variableSuggestions, dependentVar,
                   independentVars, insightVars, predictorVars>>

\* handleGenerateInsights up to its await (App.tsx:192-194); the button is
\* disabled while isLoading (App.tsx:271).
GenerateInsights ==
    /\ dataSet # NULL
    /\ ~insightsLoading
    /\ insightsLoading' = TRUE
    /\ insightRequests' = insightRequests + 1
    /\ alert' = "none"
    /\ UNCHANGED <<isLoading, dataSet, model, variableSuggestions, dependentVar,
                   independentVars, isSuggesting, suggestionError, insights,
                   suggestionRequests, predictorVars>>

\* What a call of getDatasetInsights ends with: a text, or a failure.
InsightOutcomes == {"analysis", "fails"}

\* handleGenerateInsights after its await (App.tsx:194-196): with a text the
\* insights are set and the flag is cleared; a rejected call ends the handler.
InsightsSettled(outcome) ==
    /\ insightRequests > 0
    /\ insightRequests' = insightRequests - 1
    /\ insights' = IF outcome = "fails" THEN insights ELSE outcome
    /\ insightsLoading' = IF outcome = "fails" THEN insightsLoading ELSE FALSE
    /\ alert' = "none"
    /\ UNCHANGED <<isLoading, dataSet, model, variableSuggestions, dependentVar,
                   independentVars, isSuggesting, suggestionError,
                   suggestionRequests, predictorVars>>

\* The texts typed into an input of Predictor.
InputTexts == {Str(<<"1">>), Str(<<>>)}

\* An input of Predictor changes (App.tsx:456-466).
ChangeInput(varName, value) ==
    /\ model # NULL
    /\ Includes(model.independentVars, varName)
    /\ inputs' = handleInputChange(inputs, varName, value)
    /\ alert' = "none"
    /\ UNCHANGED <<isLoading, dataSet, model, variableSuggestions, dependentVar,
                   independentVars, isSuggesting, suggestionError, insightVars,
                   suggestionRequests, prediction>>

Shown(outcome) ==
    /\ alert' = outcome.alert
    /\ prediction' = IF outcome.prediction = NULL THEN prediction ELSE outcome.prediction

\* The predict button (App.tsx:469) and handlePredict.
Predict ==
    /\ model # NULL
    /\ Shown(handlePredict(model, inputs))
    /\ UNCHANGED <<isLoading, dataSet, model, variableSuggestions, dependentVar,
                   independentVars, isSuggesting, suggestionError, insightVars,
                   suggestionRequests, inputs>>

Next ==
    \/ HandleFile
    \/ HandleFileUnsupported
    \/ FileError
    \/ \E data \in AppFiles : FileParsed(data)
    \/ \E value \in {""} \cup Range(KeyOrder) : SelectDependent(value)
    \/ \E varName \in Range(KeyOrder) : ToggleIndependent(varName)
    \/ \E fit \in {"returns", "throws"} : TrainModel(fit)
    \/ SuggestVariables
    \/ \E suggestions \in Suggestions : SuggestionsReceived(suggestions)
    \/ SuggestionsFailed
    \/ GenerateInsights
    \/ \E outcome \in InsightOutcomes : InsightsSettled(outcome)
    \/ \E varName \in Range(KeyOrder), value \in InputTexts : ChangeInput(varName, value)
    \/ Predict

Spec == Init /\ [][Next]_vars

(***************************************************************************)
(* The components.  The handlers of Predictor write inputs, prediction and *)
(* alert only, those of the insights capability insights, insightsLoading, *)
(* insightRequests and alert only, and no handler reads alert; those of    *)
(* the suggestions capability write, of what other handlers read, only the *)
(* selection, whose every value without duplicates the select and the      *)
(* checkboxes reach as well.  Each specification below is the application  *)
(* restricted to the handlers of the components it is about.               *)
(***************************************************************************)
\* Loading, manual selection and training.
NextTraining ==
    \/ HandleFile
    \/ HandleFileUnsupported
    \/ FileError
    \/ \E data \in AppFiles : FileParsed(data)
    \/ \E value \in {""} \cup Range(KeyOrder) : SelectDependent(value)
    \/ \E varName \in Range(KeyOrder) : ToggleIndependent(varName)
    \/ \E fit \in {"returns", "throws"} : TrainModel(fit)

SpecTraining == Init /\ [][NextTraining]_vars

\* Loading, manual selection and the suggestions capability.
NextSelection ==
    \/ HandleFile
    \/ \E data \in AppFiles : FileParsed(data)
    \/ \E value \in {""} \cup Range(KeyOrder) : SelectDependent(value)
    \/ \E varName \in Range(KeyOrder) : ToggleIndependent(varName)
    \/ SuggestVariables
    \/ \E suggestions \in Suggestions : SuggestionsReceived(suggestions)
    \/ SuggestionsFailed

SpecSelection == Init /\ [][NextSelection]_vars

\* Loading, the two advisory capabilities and training on the selection a
\* suggestion leaves.  A call in flight settles, by an answer or by a failure.
SuggestionsSettled ==
    (\E suggestions \in Suggestions : SuggestionsReceived(suggestions)) \/ SuggestionsFailed

NextAdvisory ==
    \/ HandleFile
    \/ \E data \in AppFiles : FileParsed(data)
    \/ SuggestVariables
    \/ SuggestionsSettled
    \/ GenerateInsights
    \/ \E outcome \in InsightOutcomes : InsightsSettled(outcome)
    \/ \E fit \in {"returns", "throws"} : TrainModel(fit)

SpecAdvisory ==
    /\ Init
    /\ [][NextAdvisory]_vars
    /\ WF_vars(SuggestionsSettled)
    /\ WF_vars(\E outcome \in InsightOutcomes : InsightsSettled(outcome))

\* Loading, selection by suggestion, training and Predictor.
NextPredictor ==
    \/ HandleFile
    \/ \E data \in AppFiles : FileParsed(data)
    \/ SuggestVariables
    \/ \E suggestions \in Suggestions : SuggestionsReceived(suggestions)
    \/ \E fit \in {"returns", "throws"} : TrainModel(fit)
    \/ \E varName \in Range(KeyOrder), value \in InputTexts : ChangeInput(varName, value)
    \/ Predict

SpecPredictor == Init /\ [][NextPredictor]_vars

\* Type coercion alone: a file of AllFiles is being read, and its parse completes.
InitData ==
    /\ isLoading = TRUE
    /\ dataSet = NULL
    /\ model = NULL
    /\ variableSuggestions = NULL
    /\ dependentVar = ""
    /\ independentVars = <<>>
    /\ isSuggesting = FALSE
    /\ suggestionError = NULL
    /\ alert = "none"
    /\ insights = ""
    /\ insightsLoading = FALSE
    /\ insightRequests = 0
    /\ suggestionRequests = <<>>
    /\ inputs = NULL
    /\ prediction = NULL

NextData == isLoading /\ \E data \in AllFiles : FileParsed(data)

SpecData == InitData /\ [][NextData]_vars

(***************************************************************************)
(* Properties.                                                             *)
(***************************************************************************)
\* A stored cell that is a valid number.
IsValidNumber(v) == "num" \in DOMAIN v

\* The rows of ds whose cell of column h is a valid number.
NumberRows(ds, h) == {r \in 1..Len(ds.data) : IsValidNumber(ds.data[r][h])}

\* The number of rows of ds in which every variable of vs is a valid number.
CleanRowCount(ds, vs) ==
    Cardinality({r \in 1..Len(ds.data) :
        \A v \in vs : v \in DOMAIN ds.data[r] /\ IsValidNumber(ds.data[r][v])})

TrainFailureAlerts ==
    {"train:noSelection", "train:insufficient", "train:unexpected",
     "train:invalidCoefficients", "train:zeroVariance"}

Fits == {"returns", "throws"}

\* C1: in every DataSet produced by type coercion, numericHeaders is a subset
\* of headers and every numeric header has at least one row whose stored value
\* is a valid number.
NumericHeadersHaveANumber ==
    dataSet # NULL =>
        /\ Range(dataSet.numericHeaders) \subseteq Range(dataSet.headers)
        /\ \A h \in Range(dataSet.numericHeaders) : NumberRows(dataSet, h) # {}

\* A loaded DataSet with a numeric column that holds a non-number, next to a
\* column that is not numeric.
NumericHeadersWitness ==
    /\ dataSet # NULL
    /\ \E h \in Range(dataSet.numericHeaders) :
          NumberRows(dataSet, h) # 1..Len(dataSet.data)
    /\ \E h \in Range(dataSet.headers) : ~Includes(dataSet.numericHeaders, h)

\* C2, as stated: a column is in numericHeaders if and only if every row's cell
\* of that column parses as a number.
NumericIffEveryCellParses ==
    dataSet # NULL =>
        \A h \in Range(dataSet.headers) :
            Includes(dataSet.numericHeaders, h) <=>
                NumberRows(dataSet, h) = 1..Len(dataSet.data)

\* C2, amended: a column is in numericHeaders if and only if at least one
\* row's cell of that column parses as a number.
NumericIffSomeCellParses ==
    dataSet # NULL =>
        \A h \in Range(dataSet.headers) :
            Includes(dataSet.numericHeaders, h) <=> NumberRows(dataSet, h) # {}

\* A numeric column in which one cell parses and another does not.
MixedColumnWitness ==
    /\ dataSet # NULL
    /\ \E h \in Range(dataSet.numericHeaders) :
          /\ NumberRows(dataSet, h) # {}
          /\ NumberRows(dataSet, h) # 1..Len(dataSet.data)

\* C3: the statistics of a numeric column count exactly the rows whose stored
\* value is a number, and a column without any is left out of the stats map.
StatsCountOnlyNumbers ==
    dataSet # NULL =>
        \A h \in Range(dataSet.numericHeaders) :
            IF NumberRows(dataSet, h) = {} THEN h \notin DOMAIN stats(dataSet)
            ELSE /\ h \in DOMAIN stats(dataSet)
                 /\ stats(dataSet)[h].count = Cardinality(NumberRows(dataSet, h))

\* C4: a train action that ends in a failure alert leaves the model, with its
\* results and variable lists, as it was.
FailedFitKeepsModel == [][alert' \in TrainFailureAlerts => model' = model]_vars

\* A failed fit with a model installed.
FailedFitWitness == model # NULL /\ alert \in TrainFailureAlerts

\* C5: with n clean rows and k independent variables, a train action with
\* n < k + 2 shows the insufficient-data alert however the fit would end and
\* installs nothing, and an installed model was fit on n >= k + 2 clean rows.
InsufficientDataRejected ==
    /\ [][\A fit \in Fits :
            (/\ dataSet # NULL
             /\ CleanRowCount(dataSet, {dependentVar} \cup Range(independentVars))
                   < Len(independentVars) + 2
             /\ TrainModel(fit))
            => (alert' = "train:insufficient" /\ model' = model)]_vars
    /\ [](model # NULL =>
            CleanRowCount(dataSet, {model.dependentVar} \cup Range(model.independentVars))
                >= Len(model.independentVars) + 2)

\* The insufficient-data alert for two independent variables and three clean rows.
InsufficientDataWitness ==
    /\ alert = "train:insufficient"
    /\ Len(independentVars) = 2
    /\ CleanRowCount(dataSet, {dependentVar} \cup Range(independentVars)) = 3

\* The dependent variable has one value in all the clean rows of the selection.
ConstantDependent(ds, dependent, independents) ==
    \A r1, r2 \in 1..Len(ds.data) :
        (/\ \A v \in {dependent} \cup Range(independents) :
                /\ v \in DOMAIN ds.data[r1] /\ IsValidNumber(ds.data[r1][v])
                /\ v \in DOMAIN ds.data[r2] /\ IsValidNumber(ds.data[r2][v]))
        => ds.data[r1][dependent] = ds.data[r2][dependent]

\* C6: a train action on n >= k + 2 clean rows in which the dependent variable
\* is constant shows the zero-variance alert and installs nothing.
ZeroVarianceReported ==
    [][\A fit \in Fits :
          (/\ dataSet # NULL
           /\ CleanRowCount(dataSet, {dependentVar} \cup Range(independentVars))
                 >= Len(independentVars) + 2
           /\ ConstantDependent(dataSet, dependentVar, independentVars)
           /\ TrainModel(fit))
          => (alert' = "train:zeroVariance" /\ model' = model)]_vars

\* Largest input value tried for each independent variable.
PredictMax == 2

ReportedPrediction(results, x) ==
    JSAdd(results.intercept,
          JSSum([i \in 1..Len(results.coefficients) |->
                    JSMul(results.coefficients[i], RInt(x[i]))]))

\* C7: the model predicts with the reported intercept and coefficients:
\* predict(x) = intercept + sum of coefficients[i] * x[i] for every input x.
ReportedCoefficientsPredict ==
    model # NULL =>
        \A x \in [1..Len(model.independentVars) -> 0..PredictMax] :
            MLRPredict(model.model.weights, x) = ReportedPrediction(model.results, x)

\* The fit of variables dependent and independents on ds is what current holds.
IsFitOf(current, outcome) ==
    outcome.trained # NULL /\ current = handleModelTrain(outcome.trained)

\* C8: a model that is present was fit on the loaded dataset, and its model
\* object, results and variable lists are those of one train action on it.
ModelFitOnCurrentDataSet ==
    model # NULL =>
        /\ dataSet # NULL
        /\ IsFitOf(model, handleTrainModel(dataSet, model.dependentVar,
                                           model.independentVars, "returns"))

\* A model trained on the loaded dataset is still present after the selection
\* has moved on to another dependent variable and its independent variables.
ModelLifecycleWitness ==
    /\ model # NULL
    /\ dependentVar # model.dependentVar
    /\ independentVars # <<>>

\* C9: an empty file is rejected: the dataset, the model and the suggestions
\* stay as they were and the loading flag returns to idle.
EmptyFileRejected ==
    [][alert' = "file:empty" =>
          /\ dataSet' = dataSet
          /\ model' = model
          /\ variableSuggestions' = variableSuggestions
          /\ isLoading' = FALSE]_vars

\* An empty file rejected with a dataset, a model and suggestions in place.
EmptyFileWitness ==
    /\ alert = "file:empty"
    /\ dataSet # NULL
    /\ model # NULL
    /\ variableSuggestions # NULL

\* The matrix m over the numeric headers hs is total, symmetric, with diagonal 1.
IsSymmetricMatrix(m, hs) ==
    /\ DOMAIN m = hs
    /\ \A a \in hs : DOMAIN m[a] = hs /\ m[a][a] = Num(1)
    /\ \A a, b \in hs : m[a][b] = m[b][a]

SelectionValid(ds, dependent, independents) ==
    /\ Includes(ds.headers, dependent)
    /\ Includes(ds.numericHeaders, dependent)
    /\ \A i \in 1..Len(independents) :
          /\ Includes(ds.headers, independents[i])
          /\ Includes(ds.numericHeaders, independents[i])
          /\ independents[i] # dependent

\* C11: a suggestion is validated before it is applied: when the answer of a
\* suggestion request changes the selection, the selected dependent variable
\* is a numeric header of the current dataset and every selected independent
\* variable is a numeric header of it other than the dependent variable.
SuggestionValidated ==
    [][\A s \in Suggestions :
          SuggestionsReceived(s) =>
              \/ UNCHANGED <<dependentVar, independentVars>>
              \/ SelectionValid(dataSet', dependentVar', independentVars')]_vars

\* A suggestion naming its own dependent variable and a column that does not
\* exist among its independent variables has been applied.
SuggestionAppliedWitness ==
    /\ variableSuggestions # NULL
    /\ Includes(variableSuggestions.independentVars, "zz")
    /\ Includes(variableSuggestions.independentVars, variableSuggestions.dependentVar)
    /\ dependentVar = variableSuggestions.dependentVar
    /\ independentVars = <<"y">>

\* A suggested independent variable v is valid for ds: a numeric header of ds
\* other than the suggested dependent variable.
SuggestedIndependentValid(s, ds, v) ==
    Includes(ds.numericHeaders, v) /\ v # s.dependentVar

\* C12: the invalid parts of a suggestion are dropped field by field: once the
\* answer of a suggestion request is in, every valid suggested independent
\* variable is selected and no suggested independent variable that is not a
\* numeric header is, also when the suggested dependent variable is invalid
\* and therefore not selected.
SuggestionDroppedPerField ==
    [][\A s \in Suggestions :
          SuggestionsReceived(s) =>
              /\ \A i \in 1..Len(s.independentVars) :
                    /\ SuggestedIndependentValid(s, dataSet', s.independentVars[i])
                          => Includes(independentVars', s.independentVars[i])
                    /\ ~Includes(dataSet'.numericHeaders, s.independentVars[i])
                          => ~Includes(independentVars', s.independentVars[i])
              /\ Includes(dataSet'.numericHeaders, s.dependentVar)
                    <=> dependentVar' = s.dependentVar]_vars

\* C13: each advisory capability has at most one request in flight, its busy
\* flag is set while the request is in flight, nothing invokes it again while
\* it is busy, and a busy capability leaves the other one available.
OneRequestPerCapability ==
    /\ insightRequests <= 1
    /\ Len(suggestionRequests) <= 1
    /\ insightRequests > 0 => insightsLoading
    /\ suggestionRequests # <<>> => isSuggesting
    /\ insightsLoading => ~ENABLED GenerateInsights
    /\ isSuggesting => ~ENABLED SuggestVariables
    /\ (dataSet # NULL /\ ~insightsLoading) => ENABLED GenerateInsights
    /\ (dataSet # NULL /\ ~isSuggesting) => ENABLED SuggestVariables

\* Both capabilities have a request in flight.
BothRequestsWitness ==
    /\ insightRequests = 1
    /\ Len(suggestionRequests) = 1
    /\ insightsLoading
    /\ isSuggesting

\* C14: an advisory failure is isolated and the capability can be invoked
\* again: once a call has settled, by an answer or by a failure, its busy flag
\* is idle or becomes idle, and a failed call leaves the dataset (and with it
\* the statistics computed from it) and the fitted model as they were.
AdvisoryFailureIsolated ==
    /\ (insightsLoading /\ insightRequests = 0) ~> ~insightsLoading
    /\ (isSuggesting /\ suggestionRequests = <<>>) ~> ~isSuggesting
    /\ [][(SuggestionsFailed \/ InsightsSettled("fails"))
              => UNCHANGED <<dataSet, model>>]_vars

\* The numbers an input of Predictor can hold.
InputNumbers == {handleInputChange(<<>>, "v", value)["v"].num : value \in InputTexts}

\* pred is what current predicts for some inputs of its independent variables.
PredictedBy(current, pred) ==
    \E x \in [1..Len(current.independentVars) -> InputNumbers] :
        pred = MLRPredict(current.model.weights, x)

\* C15: a prediction that is displayed was computed by the installed model
\* from inputs for its independent variables, and none is displayed any more
\* once a training has installed another model.
PredictionFromInstalledModel ==
    [][/\ prediction' # NULL => (model' # NULL /\ PredictedBy(model', prediction'))
       /\ (model' # NULL /\ model' # model) => prediction' = NULL]_vars

\* C16: the selection of the trainer stays within the loaded dataset: the
\* selected dependent variable, when there is one, and every selected
\* independent variable are numeric headers of it, no independent variable
\* is selected twice and none is the dependent variable.
SelectionWithinDataSet ==
    dataSet # NULL =>
        /\ dependentVar # "" => Includes(dataSet.numericHeaders, dependentVar)
        /\ \A i \in 1..Len(independentVars) :
              /\ Includes(dataSet.numericHeaders, independentVars[i])
              /\ independentVars[i] # dependentVar
              /\ \A j \in 1..Len(independentVars) :
                    independentVars[i] = independentVars[j] => i = j

\* C17: the answer to a suggestion request made for another dataset than the
\* loaded one sets neither the stored suggestions nor the selection.
LateSuggestionDiscarded ==
    [][\A s \in Suggestions :
          (/\ suggestionRequests # <<>>
           /\ Head(suggestionRequests) # dataSet
           /\ SuggestionsReceived(s))
          => /\ variableSuggestions' = variableSuggestions
             /\ UNCHANGED <<dependentVar, independentVars>>]_vars
====
